---- MODULE Spec2Model ----
(***************************************************************************)
(* Test doubles of idaes/apps/grid_integration/tests/util.py:              *)
(*   TestingModel      - a mock thermal generator model object that stages *)
(*                       a block, reports profiles and records result rows *)
(*   TestingForecaster - a mock price forecaster returning constant series *)
(*                                                                         *)
(* Numbers.  Power, cost and mileage are floats in the program; here they  *)
(* are integers counting 1/SubCent of a hundredth (of a MW or of a $), so  *)
(* that round(x, 2) is a real operation: it maps a value to the nearest    *)
(* multiple of SubCent.  The marginal cost is a plain integer ($/MW).      *)
(***************************************************************************)
EXTENDS Integers, Sequences, FiniteSets, TLC

\* ------------------------------------------------------------------ bounds
\* resolution of the modelled floats: sub-units per 0.01
SubCent == 3
\* largest horizon given to populate_model when single calls are examined
MaxHorizon == 2
\* largest number of successful record_results calls when the list is examined
MaxRecords == 2
\* largest horizon and n_samples given to the forecaster
MaxFHorizon == 2
MaxSamples == 2

\* x MW (or $) in sub-units
MW(x) == x * 100 * SubCent

\* ------------------------------------------------------------------ values
\* Python values that end up in a result row, tagged by their Python type.
PyValue(tag, n, s) == [tag |-> tag, n |-> n, s |-> s]
None == PyValue("NoneType", 0, "")
NaN == PyValue("nan", 0, "")
PyStr(s) == PyValue("str", 0, s)
PyInt(n) == PyValue("int", n, "")
PyFloat(n) == PyValue("float", n, "")

Abs(x) == IF x < 0 THEN 0 - x ELSE x

\* round(x, 2): the nearest multiple of SubCent; an exact tie goes to the even
\* hundredth.
Round2(x) ==
    LET q == x \div SubCent
        r == x % SubCent
    IN  IF 2 * r < SubCent THEN q * SubCent
        ELSE IF 2 * r > SubCent THEN (q + 1) * SubCent
        ELSE IF q % 2 = 0 THEN q * SubCent ELSE (q + 1) * SubCent

\* ------------------------------------------------------------------ dict
\* A Python dict: the sequence of its <<key, value>> items in insertion order.
DictKeys(d) == [i \in 1..Len(d) |-> d[i][1]]
DictValues(d) == [i \in 1..Len(d) |-> d[i][2]]
HasKey(d, k) == \E i \in 1..Len(d) : d[i][1] = k
\* d[k]
DictGet(d, k) == d[CHOOSE i \in 1..Len(d) : d[i][1] = k][2]
\* (faulty variant: always appends, so a repeated key makes a second item)
DictSetAppend(d, k, v) == Append(d, <<k, v>>)
\* d[k] = v : replaces the value of an existing key in place, else appends
DictSet(d, k, v) ==
    IF HasKey(d, k)
    THEN [i \in 1..Len(d) |-> IF d[i][1] = k THEN <<k, v>> ELSE d[i]]
    ELSE Append(d, <<k, v>>)

\* for key in kwargs: result_dict[key] = kwargs[key]
RECURSIVE DictUpdate(_, _)
DictUpdate(d, kwargs) ==
    IF kwargs = <<>> THEN d
    ELSE DictUpdate(DictSet(d, Head(kwargs)[1], Head(kwargs)[2]), Tail(kwargs))

\* ------------------------------------------------------------------ frames
\* A pandas DataFrame: column names and rows of cells aligned to them.
DataFrame(columns, data) == [columns |-> columns, data |-> data]

\* pd.DataFrame.from_dict(d, orient="index").T : one row, one column per key
FromDictT(d) == DataFrame(DictKeys(d), <<DictValues(d)>>)

InSeq(x, s) == \E i \in 1..Len(s) : s[i] = x
IndexOf(x, s) == CHOOSE i \in 1..Len(s) : s[i] = x

\* union of column names in order of first appearance
RECURSIVE AddColumns(_, _)
AddColumns(cols, more) ==
    IF more = <<>> THEN cols
    ELSE AddColumns(IF InSeq(Head(more), cols) THEN cols ELSE Append(cols, Head(more)),
                    Tail(more))

RECURSIVE UnionColumns(_)
UnionColumns(dfs) ==
    IF dfs = <<>> THEN <<>>
    ELSE AddColumns(dfs[1].columns, UnionColumns(Tail(dfs)))

\* a frame's rows re-indexed to the columns cols, NaN where it has no such column
Reindex(df, cols) ==
    [r \in 1..Len(df.data) |->
        [c \in 1..Len(cols) |->
            IF InSeq(cols[c], df.columns)
            THEN df.data[r][IndexOf(cols[c], df.columns)]
            ELSE NaN]]

RECURSIVE StackRows(_, _)
StackRows(dfs, cols) ==
    IF dfs = <<>> THEN <<>>
    ELSE Reindex(Head(dfs), cols) \o StackRows(Tail(dfs), cols)

\* (faulty variant: stacks the frames last to first)
PdConcatReversed(dfs) ==
    DataFrame(UnionColumns(dfs),
              StackRows([i \in 1..Len(dfs) |-> dfs[Len(dfs) + 1 - i]], UnionColumns(dfs)))
\* pd.concat(dfs) for a non-empty list (an empty list raises ValueError)
PdConcat(dfs) == DataFrame(UnionColumns(dfs), StackRows(dfs, UnionColumns(dfs)))

\* df.to_csv(path, index=False): a header line and one line per row; None and
\* NaN cells are written as empty fields
CsvCell(v) == IF v.tag \in {"NoneType", "nan"} THEN PyStr("") ELSE v
ToCsv(df) ==
    [header |-> df.columns,
     lines |-> [r \in 1..Len(df.data) |->
                  [c \in 1..Len(df.columns) |-> CsvCell(df.data[r][c])]]]

\* ------------------------------------------------------------------ inputs
\* testing_generator_params / testing_model_data: the thermal descriptor of the
\* fixtures (p_cost is its list of (power, marginal cost) pairs)
testing_model_data ==
    [class |-> "ThermalGeneratorModelData", gen_name |-> "10_STEAM",
     p_min |-> MW(30), p_max |-> MW(76), p_cost |-> <<<<MW(30), 30>>, <<MW(76), 30>>>>]

\* what a caller may hand to TestingModel(...): the thermal descriptor, a plain
\* GeneratorModelData with the same fields, a dict and None
ModelDataInputs ==
    {testing_model_data,
     [testing_model_data EXCEPT !.class = "GeneratorModelData"],
     [testing_model_data EXCEPT !.class = "dict"],
     [class |-> "NoneType", gen_name |-> "", p_min |-> 0, p_max |-> 0, p_cost |-> <<>>]}

\* (faulty variant: tests against the base class GeneratorModelData)
IsInstanceOfBase(obj, cls) ==
    obj.class \in {cls, "GeneratorModelData"}
\* isinstance(obj, cls): the classes of the fixtures are unrelated but for
\* ThermalGeneratorModelData deriving from GeneratorModelData
IsInstance(obj, cls) ==
    \/ obj.class = cls
    \/ obj.class = "ThermalGeneratorModelData" /\ cls = "GeneratorModelData"

\* values a solve may leave in P_T, and a caller may report as implemented:
\* both bounds, and one value just off each bound that round(x, 2) moves
PowerGrid(lo, hi) == {lo, lo + 1, hi - 1}

\* implemented_power_output arguments: sequences of up to two powers
ImplementedInputs(lo, hi) ==
    {<<>>} \cup {<<x>> : x \in PowerGrid(lo, hi)}
           \cup {<<x, y>> : x \in PowerGrid(lo, hi), y \in PowerGrid(lo, hi)}

\* (date, hour) arguments of record_results: the defaults and a simulation time
DateHourInputs == {<<None, None>>, <<PyStr("2020-07-10"), PyInt(13)>>}
OneDateHour == {<<PyStr("2020-07-10"), PyInt(13)>>}

\* **kwargs of record_results: none, a new column, and names that collide with
\* the standard columns
PlainKwargs == {<<>>, <<<<"Market", PyStr("Day-ahead")>>>>}
RichKwargs ==
    PlainKwargs \cup
    {<<<<"Horizon [hr]", PyInt(24)>>>>,
     <<<<"Mileage [MW]", PyFloat(0 - MW(1))>>, <<"Market", PyStr("Real-time")>>>>}

ListKwargs == PlainKwargs \cup {<<<<"Horizon [hr]", PyInt(24)>>>>}

Paths == {"results.csv"}

\* ------------------------------------------------------------------ state
VARIABLES
    testing_model,     \* the TestingModel object, or NoObject before construction
    b,                 \* the block handed to the model object's methods
    last_implemented,  \* last element given to update_model since populate_model
    ret,               \* what the last call returned
    exc,               \* the exception the last call raised, or "none"
    files,             \* path -> csv content written, or NoFile
    forecaster,        \* the TestingForecaster object, or NoObject before construction
    da_forecast,       \* last forecast_day_ahead_prices call: arguments and result
    rt_forecast,       \* last forecast_real_time_prices call
    both_forecast,     \* last forecast_day_ahead_and_real_time_prices call
    fetched            \* the last fetch_* callback the forecaster received, or "none"

model_vars == <<testing_model, b, last_implemented, ret, exc, files>>
forecaster_vars == <<forecaster, da_forecast, rt_forecast, both_forecast, fetched>>
vars == <<testing_model, b, last_implemented, ret, exc, files,
          forecaster, da_forecast, rt_forecast, both_forecast, fetched>>

NoObject == [class |-> "none"]
NoFile == [header |-> <<>>, lines |-> <<>>, written |-> FALSE]
NoUpdate == 0 - 1
NoCall == [horizon |-> 0 - 1, n_samples |-> 0 - 1, result |-> <<>>]

\* a block on which populate_model has not run
EmptyBlock ==
    [populated |-> FALSE, HOUR |-> <<>>, marginal_cost |-> 0, Pmax |-> 0, Pmin |-> 0,
     pre_P_T |-> 0, P_T |-> <<>>]

Returned(kind, val) == [kind |-> kind, val |-> val]
ReturnedNone == Returned("None", 0)

\* ------------------------------------------------------------------ TestingModel
\* TestingModel.__init__ past the type check
NewTestingModel(model_data) ==
    [class |-> "TestingModel",
     model_data |-> model_data,
     generator |-> model_data.gen_name,
     result_list |-> <<>>,
     pmin |-> model_data.p_min,
     pmax |-> model_data.p_max,
     marginal_cost |-> model_data.p_cost[1][2]]

\* TestingModel(model_data)
Construct(model_data) ==
    /\ testing_model = NoObject
    /\ IF ~IsInstance(model_data, "ThermalGeneratorModelData")
       THEN /\ exc' = "TypeError"
            /\ UNCHANGED <<testing_model, ret>>
       ELSE /\ testing_model' = NewTestingModel(model_data)
            /\ exc' = "none"
            /\ ret' = ReturnedNone
    /\ UNCHANGED <<b, last_implemented, files>>
    /\ UNCHANGED forecaster_vars

\* the block populate_model builds: HOUR = range(horizon), the parameters, and
\* P_T initialised to pmin on every hour
PopulatedBlock(self, horizon) ==
    [populated |-> TRUE,
     HOUR |-> [i \in 1..horizon |-> i - 1],
     marginal_cost |-> self.marginal_cost,
     Pmax |-> self.pmax,
     Pmin |-> self.pmin,
     pre_P_T |-> self.pmin,
     P_T |-> [t \in 0..(horizon - 1) |-> self.pmin]]

\* populate_model(b, horizon)
PopulateModel(horizon) ==
    /\ testing_model # NoObject
    /\ b' = PopulatedBlock(testing_model, horizon)
    /\ last_implemented' = NoUpdate
    /\ ret' = ReturnedNone
    /\ exc' = "none"
    /\ UNCHANGED <<testing_model, files>>
    /\ UNCHANGED forecaster_vars

\* a solve of the block (by the tracker or bidder that owns it) leaves a value
\* within the variable's bounds in P_T[t]
SetPower(t, v) ==
    /\ b.populated
    /\ t \in DOMAIN b.P_T
    /\ b.Pmin <= v /\ v <= b.Pmax
    /\ b' = [b EXCEPT !.P_T[t] = v]
    /\ ret' = ReturnedNone
    /\ exc' = "none"
    /\ UNCHANGED <<testing_model, last_implemented, files>>
    /\ UNCHANGED forecaster_vars

\* (faulty variant: takes the first element, [0], instead of the last, [-1])
UpdatePowerFirst(blk, implemented_power_output) ==
    [blk EXCEPT !.pre_P_T = Round2(implemented_power_output[1])]
\* _update_power(b, implemented_power_output), for a non-empty sequence
UpdatePower(blk, implemented_power_output) ==
    [blk EXCEPT !.pre_P_T = Round2(implemented_power_output[Len(implemented_power_output)])]

\* update_model(b, implemented_power_output)
UpdateModel(implemented_power_output) ==
    /\ testing_model # NoObject
    /\ b.populated
    /\ IF implemented_power_output = <<>>
       THEN /\ exc' = "IndexError"
            /\ UNCHANGED <<b, last_implemented, ret>>
       ELSE /\ b' = UpdatePower(b, implemented_power_output)
            /\ last_implemented' = implemented_power_output[Len(implemented_power_output)]
            /\ ret' = ReturnedNone
            /\ exc' = "none"
    /\ UNCHANGED <<testing_model, files>>
    /\ UNCHANGED forecaster_vars

\* (faulty variant: range(last_implemented_time_step), one step short)
ProfileShort(blk, last_implemented_time_step) ==
    [i \in 1..last_implemented_time_step |-> blk.P_T[i - 1]]
\* [pyo.value(b.P_T[t]) for t in range(last_implemented_time_step + 1)]
Profile(blk, last_implemented_time_step) ==
    [i \in 1..(last_implemented_time_step + 1) |-> blk.P_T[i - 1]]

\* get_implemented_profile(b, last_implemented_time_step); reading P_T past
\* the horizon raises KeyError
GetImplementedProfile(last_implemented_time_step) ==
    /\ testing_model # NoObject
    /\ b.populated
    /\ IF last_implemented_time_step \in DOMAIN b.P_T
       THEN /\ ret' = Returned("dict",
                        [implemented_power_output |-> Profile(b, last_implemented_time_step)])
            /\ exc' = "none"
       ELSE /\ exc' = "KeyError"
            /\ UNCHANGED ret
    /\ UNCHANGED <<testing_model, b, last_implemented, files>>
    /\ UNCHANGED forecaster_vars

\* pyo.value(b.P_T[last_implemented_time_step])
LastDelivered(blk, last_implemented_time_step) == blk.P_T[last_implemented_time_step]

\* get_last_delivered_power(b, last_implemented_time_step)
GetLastDeliveredPower(last_implemented_time_step) ==
    /\ testing_model # NoObject
    /\ b.populated
    /\ IF last_implemented_time_step \in DOMAIN b.P_T
       THEN /\ ret' = Returned("float", LastDelivered(b, last_implemented_time_step))
            /\ exc' = "none"
       ELSE /\ exc' = "KeyError"
            /\ UNCHANGED ret
    /\ UNCHANGED <<testing_model, b, last_implemented, files>>
    /\ UNCHANGED forecaster_vars

\* (faulty variant: cost of the minimum power instead of P_T[h])
prod_cost_fixed(blk, h) == blk.Pmin * blk.marginal_cost
\* the Expressions of the block: b.prod_cost_approx[h] and b.tot_cost[h]
prod_cost_approx(blk, h) == blk.P_T[h] * blk.marginal_cost
tot_cost(blk, h) == prod_cost_approx(blk, h)

\* (faulty variant: no abs())
MileageSigned(blk, t) ==
    IF t = 0
    THEN Round2(blk.P_T[t] - blk.pre_P_T)
    ELSE Round2(blk.P_T[t] - blk.P_T[t - 1])
\* the mileage of step t as record_results computes it
Mileage(blk, t) ==
    IF t = 0
    THEN Round2(Abs(blk.P_T[t] - blk.pre_P_T))
    ELSE Round2(Abs(blk.P_T[t] - blk.P_T[t - 1]))

StandardColumns ==
    <<"Generator", "Date", "Hour", "Horizon [hr]", "Thermal Power Generated [MW]",
      "Production Cost [$]", "Total Cost [$]", "Mileage [MW]">>

\* result_dict of step t before the keyword fields are applied
StandardFields(self, blk, t, date, hour) ==
    LET d1 == DictSet(<<>>, "Generator", PyStr(self.generator))
        d2 == DictSet(d1, "Date", date)
        d3 == DictSet(d2, "Hour", hour)
        d4 == DictSet(d3, "Horizon [hr]", PyInt(t))
        d5 == DictSet(d4, "Thermal Power Generated [MW]", PyFloat(Round2(blk.P_T[t])))
        d6 == DictSet(d5, "Production Cost [$]", PyFloat(Round2(prod_cost_approx(blk, t))))
        d7 == DictSet(d6, "Total Cost [$]", PyFloat(Round2(tot_cost(blk, t))))
    IN  DictSet(d7, "Mileage [MW]", PyFloat(Mileage(blk, t)))

\* result_dict of step t
ResultDict(self, blk, t, date, hour, kwargs) ==
    DictUpdate(StandardFields(self, blk, t, date, hour), kwargs)

\* df_list: one single-row frame per t in b.HOUR
DfList(self, blk, date, hour, kwargs) ==
    [i \in 1..Len(blk.HOUR) |->
        FromDictT(ResultDict(self, blk, blk.HOUR[i], date, hour, kwargs))]

\* (faulty variant: the list is overwritten by the new frame)
ResultListReplace(result_list, frame) == <<frame>>
\* self.result_list.append(frame)
ResultListAppend(result_list, frame) == Append(result_list, frame)

\* record_results(b, date, hour, **kwargs); pd.concat of an empty df_list (a
\* block of horizon 0) raises ValueError before anything is appended
RecordResults(date, hour, kwargs) ==
    /\ testing_model # NoObject
    /\ b.populated
    /\ LET df_list == DfList(testing_model, b, date, hour, kwargs)
       IN  IF df_list = <<>>
           THEN /\ exc' = "ValueError"
                /\ UNCHANGED <<testing_model, ret>>
           ELSE /\ testing_model' =
                      [testing_model EXCEPT !.result_list =
                          ResultListAppend(testing_model.result_list, PdConcat(df_list))]
                /\ ret' = ReturnedNone
                /\ exc' = "none"
    /\ UNCHANGED <<b, last_implemented, files>>
    /\ UNCHANGED forecaster_vars

\* write_results(path); pd.concat of an empty result_list raises ValueError
\* before the file is touched
WriteResults(path) ==
    /\ testing_model # NoObject
    /\ IF testing_model.result_list = <<>>
       THEN /\ exc' = "ValueError"
            /\ UNCHANGED <<files, ret>>
       ELSE /\ files' = [files EXCEPT ![path] =
                           [header |-> ToCsv(PdConcat(testing_model.result_list)).header,
                            lines |-> ToCsv(PdConcat(testing_model.result_list)).lines,
                            written |-> TRUE]]
            /\ ret' = ReturnedNone
            /\ exc' = "none"
    /\ UNCHANGED <<testing_model, b, last_implemented>>
    /\ UNCHANGED forecaster_vars

\* ------------------------------------------------------------------ TestingForecaster
Predictions == {0, 30, 45}
Dates == {"2020-07-10", "2020-07-11"}
Hours == {0, 13}
Buses == {"bus5", "bus1"}

\* TestingForecaster(prediction)
ConstructForecaster(p) ==
    /\ forecaster = NoObject
    /\ forecaster' = [class |-> "TestingForecaster", prediction |-> p]
    /\ UNCHANGED <<da_forecast, rt_forecast, both_forecast, fetched>>
    /\ UNCHANGED model_vars

\* make_testing_forecaster()
MakeTestingForecaster == ConstructForecaster(30)

\* (faulty variant: one step short)
ForecastShort(horizon, n_samples, p) ==
    [i \in 0..(n_samples - 1) |-> [j \in 1..(horizon - 1) |-> p]]
\* {i: [prediction] * horizon for i in range(n_samples)}
Forecast(horizon, n_samples, p) ==
    [i \in 0..(n_samples - 1) |-> [j \in 1..horizon |-> p]]

forecast_real_time_prices(self, date, hour, bus, horizon, n_samples) ==
    Forecast(horizon, n_samples, 0)

\* (faulty variant: the price depends on the hour asked for)
forecast_day_ahead_by_hour(self, date, hour, bus, horizon, n_samples) ==
    Forecast(horizon, n_samples, self.prediction + hour)
forecast_day_ahead_prices(self, date, hour, bus, horizon, n_samples) ==
    Forecast(horizon, n_samples, self.prediction)

\* returns (da_forecast, rt_forecast)
forecast_day_ahead_and_real_time_prices(self, date, hour, bus, horizon, n_samples) ==
    <<forecast_day_ahead_prices(self, date, hour, bus, horizon, n_samples),
      forecast_real_time_prices(self, date, hour, bus, horizon, n_samples)>>

Called(horizon, n_samples, result) ==
    [horizon |-> horizon, n_samples |-> n_samples, result |-> result]

ForecastDayAhead(date, hour, bus, horizon, n_samples) ==
    /\ forecaster # NoObject
    /\ da_forecast' = Called(horizon, n_samples,
           forecast_day_ahead_prices(forecaster, date, hour, bus, horizon, n_samples))
    /\ UNCHANGED <<forecaster, rt_forecast, both_forecast, fetched>>
    /\ UNCHANGED model_vars

ForecastRealTime(date, hour, bus, horizon, n_samples) ==
    /\ forecaster # NoObject
    /\ rt_forecast' = Called(horizon, n_samples,
           forecast_real_time_prices(forecaster, date, hour, bus, horizon, n_samples))
    /\ UNCHANGED <<forecaster, da_forecast, both_forecast, fetched>>
    /\ UNCHANGED model_vars

ForecastBoth(date, hour, bus, horizon, n_samples) ==
    /\ forecaster # NoObject
    /\ both_forecast' = Called(horizon, n_samples,
           forecast_day_ahead_and_real_time_prices(forecaster, date, hour, bus,
                                                   horizon, n_samples))
    /\ UNCHANGED <<forecaster, da_forecast, rt_forecast, fetched>>
    /\ UNCHANGED model_vars

\* fetch_hourly_stats_from_prescient(prescient_hourly_stats): returns at once
FetchHourlyStats ==
    /\ forecaster # NoObject
    /\ fetched' = "fetch_hourly_stats_from_prescient"
    /\ UNCHANGED <<forecaster, da_forecast, rt_forecast, both_forecast>>
    /\ UNCHANGED model_vars

\* fetch_day_ahead_stats_from_prescient(uc_date, uc_hour, day_ahead_result)
FetchDayAheadStats ==
    /\ forecaster # NoObject
    /\ fetched' = "fetch_day_ahead_stats_from_prescient"
    /\ UNCHANGED <<forecaster, da_forecast, rt_forecast, both_forecast>>
    /\ UNCHANGED model_vars

\* ------------------------------------------------------------------ specifications
Init ==
    /\ testing_model = NoObject
    /\ b = EmptyBlock
    /\ last_implemented = NoUpdate
    /\ ret = ReturnedNone
    /\ exc = "none"
    /\ files = [p \in Paths |-> NoFile]
    /\ forecaster = NoObject
    /\ da_forecast = NoCall
    /\ rt_forecast = NoCall
    /\ both_forecast = NoCall
    /\ fetched = "none"

\* steps the TestingModel specifications share: construction, a solve that
\* leaves one of the values vs in some P_T[t], an update from one of the
\* implemented profiles ipos
NewModel == \E md \in ModelDataInputs : Construct(md)
Solve(vs) == \E t \in 0..MaxHorizon : \E v \in vs : SetPower(t, v)
Update(ipos) == \E ipo \in ipos : UpdateModel(ipo)

\* single calls: every input of record_results, on the first recording of a
\* model object
RecordFirst ==
    /\ testing_model # NoObject
    /\ testing_model.result_list = <<>>
    /\ \E dh \in DateHourInputs : \E kw \in RichKwargs : RecordResults(dh[1], dh[2], kw)

NextRows ==
    \/ NewModel
    \/ \E h \in 0..MaxHorizon : PopulateModel(h)
    \/ Solve(PowerGrid(b.Pmin, b.Pmax))
    \/ Update(ImplementedInputs(b.Pmin, b.Pmax))
    \/ RecordFirst

SpecRows == Init /\ [][NextRows]_vars

\* the accumulating list: up to MaxRecords recordings of blocks of horizon 0
\* and 1 at two power levels, and the csv written from them
RecordNext ==
    /\ testing_model # NoObject
    /\ Len(testing_model.result_list) < MaxRecords
    /\ \E dh \in OneDateHour : \E kw \in PlainKwargs : RecordResults(dh[1], dh[2], kw)

NextList ==
    \/ NewModel
    \/ \E h \in 0..1 : PopulateModel(h)
    \/ Solve({b.Pmax - 1})
    \/ Update({<<b.Pmin, b.Pmax - 1>>})
    \/ RecordNext
    \/ GetImplementedProfile(0)
    \/ GetLastDeliveredPower(0)
    \/ \E path \in Paths : WriteResults(path)

SpecList == Init /\ [][NextList]_vars

\* the csv layout: up to MaxRecords recordings of blocks of horizon 0, 1 and
\* 2 as populated, and the csv written from them
RecordCsv ==
    /\ testing_model # NoObject
    /\ Len(testing_model.result_list) < MaxRecords
    /\ \E dh \in DateHourInputs : \E kw \in ListKwargs : RecordResults(dh[1], dh[2], kw)

NextCsv ==
    \/ NewModel
    \/ \E h \in 0..2 : PopulateModel(h)
    \/ RecordCsv
    \/ \E path \in Paths : WriteResults(path)

SpecCsv == Init /\ [][NextCsv]_vars

\* the profile getters
NextGet ==
    \/ NewModel
    \/ \E h \in 0..MaxHorizon : PopulateModel(h)
    \/ Solve(PowerGrid(b.Pmin, b.Pmax))
    \/ Update(ImplementedInputs(b.Pmin, b.Pmax))
    \/ \E k \in 0..MaxHorizon : GetImplementedProfile(k)
    \/ \E k \in 0..MaxHorizon : GetLastDeliveredPower(k)

SpecGet == Init /\ [][NextGet]_vars

\* the forecaster
ForecastArgs(Op(_, _, _, _, _)) ==
    \E date \in Dates : \E hour \in Hours : \E bus \in Buses :
        \E horizon \in 0..MaxFHorizon : \E n_samples \in 0..MaxSamples :
            Op(date, hour, bus, horizon, n_samples)

NextForecaster ==
    \/ \E p \in Predictions : ConstructForecaster(p)
    \/ MakeTestingForecaster
    \/ ForecastArgs(ForecastDayAhead)
    \/ ForecastArgs(ForecastRealTime)
    \/ ForecastArgs(ForecastBoth)
    \/ FetchHourlyStats
    \/ FetchDayAheadStats

SpecForecaster == Init /\ [][NextForecaster]_vars

\* ------------------------------------------------------------------ properties
\* cell of row r (1-based) of a frame under the column named col
Cell(frame, r, col) == frame.data[r][IndexOf(col, frame.columns)]
Last(seq) == seq[Len(seq)]
Frames == IF testing_model = NoObject THEN {}
          ELSE {testing_model.result_list[i] : i \in 1..Len(testing_model.result_list)}

\* C1: constructing TestingModel with model data that is not a
\* ThermalGeneratorModelData (a plain GeneratorModelData, a dict, None) raises
\* TypeError and leaves no model object; with a ThermalGeneratorModelData it
\* succeeds, and the object has an empty result_list and generator, pmin, pmax
\* equal to the descriptor's gen_name, p_min, p_max.
C1_ConstructorTypeCheck ==
    [][\A md \in ModelDataInputs :
        Construct(md) =>
            IF md.class = "ThermalGeneratorModelData"
            THEN /\ exc' = "none"
                 /\ testing_model'.class = "TestingModel"
                 /\ testing_model'.result_list = <<>>
                 /\ testing_model'.generator = md.gen_name
                 /\ testing_model'.pmin = md.p_min
                 /\ testing_model'.pmax = md.p_max
            ELSE /\ exc' = "TypeError"
                 /\ testing_model' = NoObject]_vars

\* a rejected construction: TypeError raised, still no object
C1_Witness == exc = "TypeError" /\ testing_model = NoObject

\* C8: for 0 <= k < horizon, get_implemented_profile(b, k) returns under
\* 'implemented_power_output' exactly k+1 values, the i-th being P_T[i] in time
\* order; get_last_delivered_power(b, k) called right after it returns the
\* profile's last element; neither call modifies the block.
C8_ImplementedProfile ==
    [][\A k \in 0..MaxHorizon :
        /\ (k \in DOMAIN b.P_T /\ GetImplementedProfile(k)) =>
              /\ exc' = "none"
              /\ ret'.kind = "dict"
              /\ Len(ret'.val.implemented_power_output) = k + 1
              /\ \A i \in 0..k : ret'.val.implemented_power_output[i + 1] = b.P_T[i]
              /\ b' = b
        /\ (k \in DOMAIN b.P_T /\ GetLastDeliveredPower(k)) =>
              /\ exc' = "none"
              /\ ret'.kind = "float"
              /\ b' = b
        /\ (/\ ret.kind = "dict"
            /\ Len(ret.val.implemented_power_output) = k + 1
            /\ GetLastDeliveredPower(k)) =>
              ret'.val = ret.val.implemented_power_output[k + 1]]_vars

\* a returned profile of two different powers
C8_Witness ==
    /\ ret.kind = "dict"
    /\ Len(ret.val.implemented_power_output) = 2
    /\ ret.val.implemented_power_output[1] # ret.val.implemented_power_output[2]

\* a step that changed the model object once it exists
ModelChanged == testing_model # NoObject /\ testing_model' # testing_model
\* a record_results call with these arguments that appended its frame
Recorded(dh, kw) == ModelChanged /\ b.HOUR # <<>> /\ RecordResults(dh[1], dh[2], kw)
\* the frame a record_results step appended
NewFrame == Last(testing_model'.result_list)
KwNames(kw) == {kw[i][1] : i \in 1..Len(kw)}

\* C2 as stated (here only for calls without a 'Mileage [MW]' keyword): in
\* every recorded frame the 'Mileage [MW]' of step 0 is |P_T[0] - pre_P_T| and
\* that of a step t >= 1 is |P_T[t] - P_T[t-1]|, never negative.
C2_MileageExact ==
    [][\A dh \in DateHourInputs : \A kw \in RichKwargs :
        (Recorded(dh, kw) /\ "Mileage [MW]" \notin KwNames(kw)) =>
            \A t \in DOMAIN b.P_T :
                /\ Cell(NewFrame, t + 1, "Mileage [MW]").n =
                       IF t = 0 THEN Abs(b.P_T[0] - b.pre_P_T)
                       ELSE Abs(b.P_T[t] - b.P_T[t - 1])
                /\ Cell(NewFrame, t + 1, "Mileage [MW]").n >= 0]_vars

\* C2 amended: the 'Mileage [MW]' of step 0 is |P_T[0] - pre_P_T| rounded to 2
\* decimals and that of a step t >= 1 is |P_T[t] - P_T[t-1]| rounded to 2
\* decimals, a float that is never negative; a keyword argument named
\* 'Mileage [MW]' replaces it.
C2_MileageRounded ==
    [][\A dh \in DateHourInputs : \A kw \in RichKwargs :
        Recorded(dh, kw) =>
            \A t \in DOMAIN b.P_T :
                IF "Mileage [MW]" \in KwNames(kw)
                THEN Cell(NewFrame, t + 1, "Mileage [MW]") = DictGet(kw, "Mileage [MW]")
                ELSE /\ Cell(NewFrame, t + 1, "Mileage [MW]") =
                            PyFloat(IF t = 0 THEN Round2(Abs(b.P_T[0] - b.pre_P_T))
                                    ELSE Round2(Abs(b.P_T[t] - b.P_T[t - 1])))
                     /\ Cell(NewFrame, t + 1, "Mileage [MW]").n >= 0]_vars

\* a recorded frame of two steps, the power falling between them by an amount
\* that is no multiple of 0.01: a positive mileage on the later step
C2_Witness ==
    \E f \in Frames :
        /\ Len(f.data) = 2
        /\ Cell(f, 1, "Thermal Power Generated [MW]").n
              > Cell(f, 2, "Thermal Power Generated [MW]").n
        /\ Cell(f, 2, "Mileage [MW]").tag = "float"
        /\ Cell(f, 2, "Mileage [MW]").n > 0

\* C5 as stated: in every recorded row 'Total Cost [$]' equals
\* 'Production Cost [$]' and both equal the row's power times the model's
\* marginal cost.
C5_CostOfRowPower ==
    \A f \in Frames : \A r \in 1..Len(f.data) :
        /\ Cell(f, r, "Total Cost [$]") = Cell(f, r, "Production Cost [$]")
        /\ Cell(f, r, "Production Cost [$]").n =
               Cell(f, r, "Thermal Power Generated [MW]").n * testing_model.marginal_cost

\* C5 amended: in every recorded row 'Total Cost [$]' equals
\* 'Production Cost [$]' and both equal P_T[t] times the model's marginal cost,
\* rounded to 2 decimals (the product is rounded, not the product of the
\* rounded power), unless a keyword argument replaces one of these columns.
C5_CostRounded ==
    [][\A dh \in DateHourInputs : \A kw \in RichKwargs :
        (/\ Recorded(dh, kw)
         /\ KwNames(kw) \cap {"Total Cost [$]", "Production Cost [$]"} = {}) =>
            \A t \in DOMAIN b.P_T :
                /\ Cell(NewFrame, t + 1, "Total Cost [$]") =
                       Cell(NewFrame, t + 1, "Production Cost [$]")
                /\ Cell(NewFrame, t + 1, "Production Cost [$]") =
                       PyFloat(Round2(b.P_T[t] * testing_model.marginal_cost))]_vars

\* a recorded row whose power rounds to pmin while its cost is above pmin's
C5_Witness ==
    \E f \in Frames : \E r \in 1..Len(f.data) :
        /\ Cell(f, r, "Thermal Power Generated [MW]").n = testing_model.pmin
        /\ Cell(f, r, "Production Cost [$]").n > testing_model.pmin * testing_model.marginal_cost
        /\ Cell(f, r, "Total Cost [$]") = Cell(f, r, "Production Cost [$]")

\* C10: the keyword fields are applied after the standard fields: a keyword
\* named like a standard column replaces that column's value in every row and
\* adds no second column; every column name occurs once, and the columns are
\* the 8 standard names united with the keyword names.
C10_KeywordsReplace ==
    [][\A dh \in DateHourInputs : \A kw \in RichKwargs :
        Recorded(dh, kw) =>
            LET cols == NewFrame.columns
            IN  /\ \A i, j \in 1..Len(cols) : cols[i] = cols[j] => i = j
                /\ {cols[i] : i \in 1..Len(cols)} =
                       {StandardColumns[i] : i \in 1..Len(StandardColumns)} \cup KwNames(kw)
                /\ \A r \in 1..Len(NewFrame.data) :
                       /\ Len(NewFrame.data[r]) = Len(cols)
                       /\ \A i \in 1..Len(kw) :
                              Cell(NewFrame, r, kw[i][1]) = kw[i][2]]_vars

\* a recorded frame of 8 columns whose 'Horizon [hr]' holds the keyword's value
C10_Witness ==
    \E f \in Frames :
        /\ Len(f.columns) = 8
        /\ Len(f.data) = 2
        /\ \A r \in 1..2 : Cell(f, r, "Horizon [hr]") = PyInt(24)

\* C7 as stated, its consequence (here only for calls without a
\* 'Mileage [MW]' keyword): the step-0 mileage a record_results call records is
\* |P_T[0] - x|, x the last element of the most recent update_model sequence,
\* or pmin when update_model was not called.
C7_Step0MileageExact ==
    [][\A dh \in DateHourInputs : \A kw \in RichKwargs :
        (Recorded(dh, kw) /\ "Mileage [MW]" \notin KwNames(kw)) =>
            Cell(NewFrame, 1, "Mileage [MW]").n =
                Abs(b.P_T[0] - (IF last_implemented = NoUpdate THEN testing_model.pmin
                                ELSE last_implemented))]_vars

\* C7 amended: update_model(b, s) with a non-empty s sets pre_P_T to the last
\* element of s rounded to 2 decimals and changes nothing else (P_T, Pmin,
\* Pmax, marginal_cost, result_list); the step-0 mileage the next
\* record_results records (without a 'Mileage [MW]' keyword) is
\* |P_T[0] - round(x, 2)| rounded to 2 decimals, x the last element of the most
\* recent update_model sequence since the block was populated, or pmin when
\* there was none.
C7_UpdateSetsPrevious ==
    [][/\ \A ipo \in ImplementedInputs(b.Pmin, b.Pmax) :
            (ipo # <<>> /\ UpdateModel(ipo)) =>
                /\ b'.pre_P_T = Round2(ipo[Len(ipo)])
                /\ b' = [b EXCEPT !.pre_P_T = b'.pre_P_T]
                /\ testing_model' = testing_model
       /\ \A dh \in DateHourInputs : \A kw \in RichKwargs :
            (Recorded(dh, kw) /\ "Mileage [MW]" \notin KwNames(kw)) =>
                Cell(NewFrame, 1, "Mileage [MW]") =
                    PyFloat(Round2(Abs(b.P_T[0] -
                        (IF last_implemented = NoUpdate THEN testing_model.pmin
                         ELSE Round2(last_implemented)))))]_vars

\* update_model was given a sequence ending just below pmax, the block's
\* pre_P_T is pmax, and a frame holds the step-0 mileage pmax - pmin
C7_Witness ==
    /\ last_implemented = b.Pmax - 1
    /\ b.pre_P_T = b.Pmax
    /\ \E f \in Frames :
          Cell(f, 1, "Mileage [MW]") = PyFloat(b.Pmax - b.Pmin)

\* what a record_results call puts into its frame besides 'Horizon [hr]': one
\* row per step of the horizon, the 8 standard columns and the keyword names,
\* and Generator, Date, Hour and the keyword values the same on every row
FrameLayout(dh, kw) ==
    /\ Len(NewFrame.data) = Len(b.HOUR)
    /\ {NewFrame.columns[i] : i \in 1..Len(NewFrame.columns)} =
           {StandardColumns[i] : i \in 1..Len(StandardColumns)} \cup KwNames(kw)
    /\ \A r \in 1..Len(NewFrame.data) :
           /\ Cell(NewFrame, r, "Date") = dh[1]
           /\ Cell(NewFrame, r, "Hour") = dh[2]
           /\ Cell(NewFrame, r, "Generator") = PyStr(testing_model.generator)
           /\ \A i \in 1..Len(kw) : Cell(NewFrame, r, kw[i][1]) = kw[i][2]

\* rows of the frames of a list before its i-th frame
RECURSIVE RowsBefore(_, _)
RowsBefore(result_list, i) ==
    IF i <= 1 THEN 0
    ELSE RowsBefore(result_list, i - 1) + Len(result_list[i - 1].data)

\* the csv holds the rows of the frames of result_list, frame after frame in
\* list order and row after row within a frame
CsvInCallOrder(csv, result_list) ==
    /\ csv.written
    /\ Len(csv.lines) = RowsBefore(result_list, Len(result_list) + 1)
    /\ \A i \in 1..Len(result_list) : \A r \in 1..Len(result_list[i].data) :
          \A c \in 1..Len(csv.header) :
              csv.lines[RowsBefore(result_list, i) + r][c] =
                  IF InSeq(csv.header[c], result_list[i].columns)
                  THEN CsvCell(Cell(result_list[i], r, csv.header[c]))
                  ELSE PyStr("")
    /\ \A i \in 1..Len(result_list) : \A c \in 1..Len(result_list[i].columns) :
          InSeq(result_list[i].columns[c], csv.header)

\* C4 as stated, for the frame of a record_results call: one row per step of
\* the horizon, 'Horizon [hr]' running 0..horizon-1 in increasing order, the 8
\* standard columns plus the keyword columns, and Generator, Date, Hour and
\* the keyword values identical across rows.
C4_RowsAsStated ==
    [][\A dh \in DateHourInputs : \A kw \in ListKwargs :
        Recorded(dh, kw) =>
            /\ FrameLayout(dh, kw)
            /\ \A r \in 1..Len(NewFrame.data) :
                   Cell(NewFrame, r, "Horizon [hr]") = PyInt(r - 1)]_vars

\* C4 amended: as stated, but 'Horizon [hr]' runs 0..horizon-1 only when no
\* keyword argument is named 'Horizon [hr]' (otherwise every row holds the
\* keyword's value); write_results writes the rows of all recorded frames in
\* the order of the calls.
C4_RowsAndCsv ==
    [][/\ \A dh \in DateHourInputs : \A kw \in ListKwargs :
            Recorded(dh, kw) =>
                /\ FrameLayout(dh, kw)
                /\ \A r \in 1..Len(NewFrame.data) :
                       Cell(NewFrame, r, "Horizon [hr]") =
                           IF "Horizon [hr]" \in KwNames(kw)
                           THEN DictGet(kw, "Horizon [hr]")
                           ELSE PyInt(r - 1)
       /\ \A path \in Paths :
            (/\ testing_model # NoObject
             /\ testing_model.result_list # <<>>
             /\ files' # files
             /\ WriteResults(path)) =>
                CsvInCallOrder(files'[path], testing_model.result_list)]_vars

\* a csv of three lines and nine columns written from two frames: the first
\* of two rows with 'Horizon [hr]' 0 then 1, the second with a Market column
C4_Witness ==
    \E path \in Paths :
        /\ files[path].written
        /\ Len(files[path].lines) = 3
        /\ Len(files[path].header) = 9
        /\ Len(testing_model.result_list) = 2
        /\ Len(testing_model.result_list[1].data) = 2
        /\ Cell(testing_model.result_list[1], 1, "Horizon [hr]") = PyInt(0)
        /\ Cell(testing_model.result_list[1], 2, "Horizon [hr]") = PyInt(1)
        /\ ~InSeq("Market", testing_model.result_list[1].columns)
        /\ InSeq("Market", testing_model.result_list[2].columns)
        /\ files[path].lines[1][9] = PyStr("")
        /\ files[path].lines[3][9] = PyStr("Day-ahead")

\* C6 as stated, its second sentence: each record_results call appends
\* exactly one entry at the end of result_list.
C6_EveryCallAppends ==
    [][\A dh \in OneDateHour : \A kw \in PlainKwargs :
        RecordResults(dh[1], dh[2], kw) =>
            Len(testing_model'.result_list) = Len(testing_model.result_list) + 1]_vars

\* C6 amended: result_list only accumulates, and its length is the number of
\* record_results calls that returned: a call on a block with a non-empty
\* horizon appends exactly one entry at the end and leaves the earlier entries
\* unchanged; a call on a block of horizon 0 raises ValueError and appends
\* nothing; every other operation on the object leaves result_list unchanged.
C6_ListAccumulates ==
    [][testing_model # NoObject =>
        /\ \A dh \in OneDateHour : \A kw \in PlainKwargs :
              RecordResults(dh[1], dh[2], kw) =>
                  IF b.HOUR = <<>>
                  THEN /\ exc' = "ValueError"
                       /\ testing_model'.result_list = testing_model.result_list
                  ELSE /\ exc' = "none"
                       /\ Len(testing_model'.result_list) =
                              Len(testing_model.result_list) + 1
                       /\ SubSeq(testing_model'.result_list, 1,
                                 Len(testing_model.result_list)) = testing_model.result_list
        /\ testing_model'.result_list # testing_model.result_list =>
              /\ b.HOUR # <<>>
              /\ \E dh \in OneDateHour : \E kw \in PlainKwargs :
                     RecordResults(dh[1], dh[2], kw)]_vars

\* one entry recorded, then a record_results call on a block of horizon 0 that
\* raised
C6_Witness ==
    /\ testing_model # NoObject
    /\ Len(testing_model.result_list) = 1
    /\ b.populated /\ b.HOUR = <<>>
    /\ exc = "ValueError"

\* a forecast of n_samples scenarios keyed 0..n_samples-1, each of length
\* horizon and filled with p
ConstantForecast(result, horizon, n_samples, p) ==
    /\ DOMAIN result = 0..(n_samples - 1)
    /\ \A i \in DOMAIN result :
          /\ Len(result[i]) = horizon
          /\ \A j \in 1..Len(result[i]) : result[i][j] = p

WasCalled(call) == call.horizon >= 0

\* C3 as stated: every forecast returned (day-ahead, real-time, and both
\* elements of the combined call) has n_samples entries keyed 0..n_samples-1,
\* each of length horizon, every element the constructor's prediction.
C3_AllFilledWithPrediction ==
    /\ WasCalled(da_forecast) =>
          ConstantForecast(da_forecast.result, da_forecast.horizon,
                           da_forecast.n_samples, forecaster.prediction)
    /\ WasCalled(rt_forecast) =>
          ConstantForecast(rt_forecast.result, rt_forecast.horizon,
                           rt_forecast.n_samples, forecaster.prediction)
    /\ WasCalled(both_forecast) =>
          \A e \in 1..2 :
              ConstantForecast(both_forecast.result[e], both_forecast.horizon,
                               both_forecast.n_samples, forecaster.prediction)

\* C3 amended: every forecast has n_samples entries keyed 0..n_samples-1, each
\* of length horizon; the day-ahead forecast (and the first element of the
\* combined call) is filled with the constructor's prediction, the real-time
\* forecast (and the second element of the combined call) is filled with 0.
C3_DayAheadPredictionRealTimeZero ==
    /\ WasCalled(da_forecast) =>
          ConstantForecast(da_forecast.result, da_forecast.horizon,
                           da_forecast.n_samples, forecaster.prediction)
    /\ WasCalled(rt_forecast) =>
          ConstantForecast(rt_forecast.result, rt_forecast.horizon,
                           rt_forecast.n_samples, 0)
    /\ WasCalled(both_forecast) =>
          /\ Len(both_forecast.result) = 2
          /\ ConstantForecast(both_forecast.result[1], both_forecast.horizon,
                              both_forecast.n_samples, forecaster.prediction)
          /\ ConstantForecast(both_forecast.result[2], both_forecast.horizon,
                              both_forecast.n_samples, 0)

\* the forecaster of make_testing_forecaster asked for 2 scenarios over 2
\* steps: real-time prices 0, and 30 then 0 in the combined forecast
C3_Witness ==
    /\ forecaster # NoObject
    /\ forecaster.prediction = 30
    /\ rt_forecast.horizon = 2 /\ rt_forecast.n_samples = 2
    /\ rt_forecast.result[1] = <<0, 0>>
    /\ both_forecast.horizon = 2 /\ both_forecast.n_samples = 2
    /\ both_forecast.result[1][0] = <<30, 30>>
    /\ both_forecast.result[2][1] = <<0, 0>>

\* C9: the combined call returns the pair (day-ahead forecast, real-time
\* forecast) of the same horizon and n_samples, whatever date, hour and bus
\* either call was given, whatever calls came before, and whatever fetch_*
\* callbacks ran in between.
C9_CombinedIsPairOfSingles ==
    WasCalled(both_forecast) =>
        /\ Len(both_forecast.result) = 2
        /\ (/\ WasCalled(da_forecast)
            /\ da_forecast.horizon = both_forecast.horizon
            /\ da_forecast.n_samples = both_forecast.n_samples) =>
               both_forecast.result[1] = da_forecast.result
        /\ (/\ WasCalled(rt_forecast)
            /\ rt_forecast.horizon = both_forecast.horizon
            /\ rt_forecast.n_samples = both_forecast.n_samples) =>
               both_forecast.result[2] = rt_forecast.result

\* all three calls made for 2 scenarios over 2 steps on a forecaster of a
\* non-zero prediction that has received a callback
C9_Witness ==
    /\ forecaster # NoObject
    /\ forecaster.prediction = 45
    /\ fetched # "none"
    /\ both_forecast.horizon = 2 /\ both_forecast.n_samples = 2
    /\ da_forecast.horizon = 2 /\ da_forecast.n_samples = 2
    /\ rt_forecast.horizon = 2 /\ rt_forecast.n_samples = 2
    /\ both_forecast.result[1] # both_forecast.result[2]

====
